---- MODULE Spec2Model ----
(***************************************************************************)
(* Model of the Minesweeper knowledge base of minesweeper.py: the Sentence *)
(* class, the MinesweeperAI class and the board oracle of Minesweeper.     *)
(* A cell is a pair <<row, col>>; a sentence is a record [cells, count].   *)
(* add_knowledge is modelled pass by pass (new sentence, closure pass,     *)
(* subset-inference pass) so that its loop is visible to the checker.      *)
(***************************************************************************)
EXTENDS Integers, FiniteSets, Sequences, TLC

\* Largest board area height * width that is explored.
MaxCells == 6
\* Largest board area explored by the unconstrained specification.
MaxFreeCells == 4
\* Largest number of mutator calls in the unconstrained specification.
MaxCalls == 3
\* Largest count handed to add_knowledge in the unconstrained specification.
MaxCount == 2
\* Cap on the closure passes of one add_knowledge call.
MaxPasses == 4

\* A returned value is a sequence: << >> is None, << c >> is the cell c.
NoMove == << >>
Move(c) == << c >>
\* What a call raised: nothing, or the ValueError of random.sample on an
\* empty population.
NoError == "none"
ValueError == "ValueError"

VARIABLES
    height,      \* MinesweeperAI.height
    width,       \* MinesweeperAI.width
    board,       \* Minesweeper.board: the set of cells that hold a mine
    moves_made,  \* MinesweeperAI.moves_made
    mines,       \* MinesweeperAI.mines
    safes,       \* MinesweeperAI.safes
    knowledge,   \* MinesweeperAI.knowledge: sequence of sentences
    pc,          \* position inside add_knowledge: "idle", "closure", "subset"
    passes,      \* closure passes run by the current add_knowledge call
    op,          \* the last operation called
    result,      \* what the last call returned: NoMove or Move(cell)
    raised,      \* what the last call raised: NoError or ValueError
    history      \* the mutator calls made so far, <<name, cell, count>> each

vars == <<height, width, board, moves_made, mines, safes, knowledge,
          pc, passes, op, result, raised, history>>

kbvars == <<moves_made, mines, safes, knowledge>>

----------------------------------------------------------------------------
\* Board

\* itertools.product(range(height), range(width))
AllCells(h, w) == (0 .. h - 1) \X (0 .. w - 1)

\* Faulty variant: only the four orthogonal neighbours.
adjacent_cells_Orthogonal(h, w, cell) ==
    { n \in (cell[1] - 1 .. cell[1] + 1) \X (cell[2] - 1 .. cell[2] + 1) :
        /\ 0 <= n[1] /\ n[1] < h
        /\ 0 <= n[2] /\ n[2] < w
        /\ (n[1] = cell[1] \/ n[2] = cell[2]) } \ {cell}

\* Cells within one row and one column of cell, inside the board, cell excluded.
adjacent_cells(h, w, cell) ==
    { n \in (cell[1] - 1 .. cell[1] + 1) \X (cell[2] - 1 .. cell[2] + 1) :
        /\ 0 <= n[1] /\ n[1] < h
        /\ 0 <= n[2] /\ n[2] < w } \ {cell}

\* Minesweeper.nearby_mines: number of mines around cell, cell excluded.
nearby_mines(b, h, w, cell) ==
    Cardinality({ n \in (cell[1] - 1 .. cell[1] + 1) \X (cell[2] - 1 .. cell[2] + 1) :
                    /\ n # cell
                    /\ 0 <= n[1] /\ n[1] < h
                    /\ 0 <= n[2] /\ n[2] < w
                    /\ n \in b })

----------------------------------------------------------------------------
\* Sentence

Sentence(cells, count) == [cells |-> cells, count |-> count]

\* Faulty variant: a count above the number of cells also resolves the sentence.
known_mines_AtLeast(s) == IF s.count >= Cardinality(s.cells) THEN s.cells ELSE {}

known_mines(s) == IF s.count = Cardinality(s.cells) THEN s.cells ELSE {}

known_safes(s) == IF s.count = 0 THEN s.cells ELSE {}

\* Faulty variant: the count is decremented whether or not the cell is there.
Sentence_mark_mine_AlwaysDecrement(s, cell) ==
    [cells |-> s.cells \ {cell}, count |-> s.count - 1]

\* Faulty variant: the count is not decremented.
Sentence_mark_mine_NoDecrement(s, cell) ==
    IF cell \in s.cells
    THEN [cells |-> s.cells \ {cell}, count |-> s.count]
    ELSE s

Sentence_mark_mine(s, cell) ==
    IF cell \in s.cells
    THEN [cells |-> s.cells \ {cell}, count |-> s.count - 1]
    ELSE s

\* Faulty variant: the count is decremented as in mark_mine.
Sentence_mark_safe_Decrement(s, cell) ==
    IF cell \in s.cells
    THEN [cells |-> s.cells \ {cell}, count |-> s.count - 1]
    ELSE s

Sentence_mark_safe(s, cell) ==
    IF cell \in s.cells
    THEN [cells |-> s.cells \ {cell}, count |-> s.count]
    ELSE s

----------------------------------------------------------------------------
\* MinesweeperAI: the mutators, on a record kb = [mines, safes, knowledge]

\* Faulty variant: the sentences are not updated.
mark_mine_NoPropagation(kb, cell) ==
    [mines     |-> kb.mines \cup {cell},
     safes     |-> kb.safes,
     knowledge |-> kb.knowledge]

mark_mine(kb, cell) ==
    [mines     |-> kb.mines \cup {cell},
     safes     |-> kb.safes,
     knowledge |-> [i \in DOMAIN kb.knowledge |->
                        Sentence_mark_mine(kb.knowledge[i], cell)]]

mark_safe(kb, cell) ==
    [mines     |-> kb.mines,
     safes     |-> kb.safes \cup {cell},
     knowledge |-> [i \in DOMAIN kb.knowledge |->
                        Sentence_mark_safe(kb.knowledge[i], cell)]]

\* for mine in unmarked_mines: self.mark_mine(mine)
\* (k and todo name the values of kb and S, so that each is computed once)
RECURSIVE MarkMines(_, _)
MarkMines(kb, S) ==
    CHOOSE r \in
        { IF todo = {} THEN k
          ELSE LET c == CHOOSE x \in todo : TRUE
               IN  MarkMines(mark_mine(k, c), todo \ {c})
          : k \in {kb}, todo \in {S} } : TRUE

\* for safe in unmarked_safes: self.mark_safe(safe)
RECURSIVE MarkSafes(_, _)
MarkSafes(kb, S) ==
    CHOOSE r \in
        { IF todo = {} THEN k
          ELSE LET c == CHOOSE x \in todo : TRUE
               IN  MarkSafes(mark_safe(k, c), todo \ {c})
          : k \in {kb}, todo \in {S} } : TRUE

\* Faulty variant: self.mines and self.safes are assigned, not united.
update_knowledge_Assign(kb, sentence_list) ==
    LET unmarked_mines ==
            UNION { known_mines(sentence_list[i]) : i \in DOMAIN sentence_list }
        unmarked_safes ==
            UNION { known_safes(sentence_list[i]) : i \in DOMAIN sentence_list }
    IN  IF Cardinality(unmarked_mines) + Cardinality(unmarked_safes) = 0
        THEN [changed |-> FALSE, kb |-> kb]
        ELSE [changed |-> TRUE,
              kb |-> MarkSafes(
                        MarkMines([mines     |-> unmarked_mines,
                                   safes     |-> unmarked_safes,
                                   knowledge |-> kb.knowledge],
                                  unmarked_mines),
                        unmarked_safes)]

\* Faulty variant: the pass reports changes although it found nothing.
update_knowledge_AlwaysChanged(kb, sentence_list) ==
    LET unmarked_mines ==
            UNION { known_mines(sentence_list[i]) : i \in DOMAIN sentence_list }
        unmarked_safes ==
            UNION { known_safes(sentence_list[i]) : i \in DOMAIN sentence_list }
    IN  [changed |-> TRUE,
         kb |-> MarkSafes(
                   MarkMines([mines     |-> kb.mines \cup unmarked_mines,
                              safes     |-> kb.safes \cup unmarked_safes,
                              knowledge |-> kb.knowledge],
                             unmarked_mines),
                   unmarked_safes)]

\* update_knowledge(sentence_list): scan, then mark on the whole knowledge.
update_knowledge(kb, sentence_list) ==
    LET unmarked_mines ==
            UNION { known_mines(sentence_list[i]) : i \in DOMAIN sentence_list }
        unmarked_safes ==
            UNION { known_safes(sentence_list[i]) : i \in DOMAIN sentence_list }
    IN  IF Cardinality(unmarked_mines) + Cardinality(unmarked_safes) = 0
        THEN [changed |-> FALSE, kb |-> kb]
        ELSE [changed |-> TRUE,
              kb |-> MarkSafes(
                        MarkMines([mines     |-> kb.mines \cup unmarked_mines,
                                   safes     |-> kb.safes \cup unmarked_safes,
                                   knowledge |-> kb.knowledge],
                                  unmarked_mines),
                        unmarked_safes)]

\* Faulty variant: the derived sentence keeps the count of the right sentence.
RECURSIVE InferRight_KeepCount(_, _, _)
InferRight_KeepCount(kn, i, j) ==
    IF j > Len(kn) THEN << >>
    ELSE (IF i # j /\ kn[i].cells \subseteq kn[j].cells
                   /\ kn[i].cells # kn[j].cells
          THEN << Sentence(kn[j].cells \ kn[i].cells, kn[j].count) >>
          ELSE << >>) \o InferRight_KeepCount(kn, i, j + 1)

\* Faulty variant: the counts are subtracted the wrong way round.
RECURSIVE InferRight_SwapCount(_, _, _)
InferRight_SwapCount(kn, i, j) ==
    IF j > Len(kn) THEN << >>
    ELSE (IF i # j /\ kn[i].cells \subseteq kn[j].cells
                   /\ kn[i].cells # kn[j].cells
          THEN << Sentence(kn[j].cells \ kn[i].cells,
                           kn[i].count - kn[j].count) >>
          ELSE << >>) \o InferRight_SwapCount(kn, i, j + 1)

\* The sentences derived with left = kn[i] and right = kn[j], kn[j+1], ...
RECURSIVE InferRight(_, _, _)
InferRight(kn, i, j) ==
    IF j > Len(kn) THEN << >>
    ELSE (IF i # j /\ kn[i].cells \subseteq kn[j].cells
                   /\ kn[i].cells # kn[j].cells
          THEN << Sentence(kn[j].cells \ kn[i].cells,
                           kn[j].count - kn[i].count) >>
          ELSE << >>) \o InferRight(kn, i, j + 1)

\* new_sentences: one derived sentence per ordered pair of
\* itertools.permutations(knowledge, 2) with left.cells < right.cells.
RECURSIVE new_sentences(_, _)
new_sentences(kn, i) ==
    IF i > Len(kn) THEN << >>
    ELSE InferRight(kn, i, 1) \o new_sentences(kn, i + 1)

----------------------------------------------------------------------------
\* Initial state: a board of any size up to MaxCells with any mine placement,
\* and a freshly constructed MinesweeperAI.

Init ==
    /\ height \in 1 .. MaxCells
    /\ width \in 1 .. MaxCells
    /\ height * width <= MaxCells
    /\ board \in SUBSET AllCells(height, width)
    /\ moves_made = {}
    /\ mines = {}
    /\ safes = {}
    /\ knowledge = << >>
    /\ pc = "idle"
    /\ passes = 0
    /\ op = "init"
    /\ result = NoMove
    /\ raised = NoError
    /\ history = << >>

----------------------------------------------------------------------------
\* Faulty variant: the cells already clicked are kept in the new sentence.
AddKnowledge_KeepsClicked(cell, count) ==
    /\ pc = "idle"
    /\ moves_made' = moves_made \cup {cell}
    /\ safes' = safes \cup {cell}
    /\ knowledge' =
          Append([i \in DOMAIN knowledge |-> Sentence_mark_safe(knowledge[i], cell)],
                 Sentence(adjacent_cells(height, width, cell), count))
    /\ pc' = "closure"
    /\ passes' = 0
    /\ op' = "add_knowledge"
    /\ result' = NoMove
    /\ raised' = NoError
    /\ history' = Append(history, <<"add_knowledge", cell, count>>)
    /\ UNCHANGED <<height, width, board, mines>>

\* add_knowledge, lines 193-215: record the move, mark it safe in every
\* sentence, append the new sentence.
AddKnowledge(cell, count) ==
    /\ pc = "idle"
    /\ moves_made' = moves_made \cup {cell}
    /\ safes' = safes \cup {cell}
    /\ knowledge' =
          Append([i \in DOMAIN knowledge |-> Sentence_mark_safe(knowledge[i], cell)],
                 Sentence(adjacent_cells(height, width, cell) \ (moves_made \cup {cell}),
                          count))
    /\ pc' = "closure"
    /\ passes' = 0
    /\ op' = "add_knowledge"
    /\ result' = NoMove
    /\ raised' = NoError
    /\ history' = Append(history, <<"add_knowledge", cell, count>>)
    /\ UNCHANGED <<height, width, board, mines>>

\* Faulty variant: the call returns after its first closure pass.
Closure_SinglePass ==
    /\ pc = "closure"
    /\ passes < MaxPasses
    /\ \E r \in { update_knowledge([mines |-> mines, safes |-> safes,
                                     knowledge |-> knowledge], knowledge) } :
           /\ mines' = r.kb.mines
           /\ safes' = r.kb.safes
           /\ knowledge' = r.kb.knowledge
           /\ pc' = "idle"
    /\ passes' = passes + 1
    /\ UNCHANGED <<height, width, board, moves_made, op, result, raised, history>>

\* add_knowledge, lines 246-250: one closure pass over the whole knowledge;
\* the call returns when the pass finds nothing.
Closure ==
    /\ pc = "closure"
    /\ passes < MaxPasses
    /\ \E r \in { update_knowledge([mines |-> mines, safes |-> safes,
                                     knowledge |-> knowledge], knowledge) } :
           /\ mines' = r.kb.mines
           /\ safes' = r.kb.safes
           /\ knowledge' = r.kb.knowledge
           /\ pc' = IF r.changed THEN "subset" ELSE "idle"
    /\ passes' = passes + 1
    /\ UNCHANGED <<height, width, board, moves_made, op, result, raised, history>>

\* add_knowledge, lines 254-271: the subset-inference pass, then a closure
\* pass that scans only the new sentences; the call returns when that pass
\* finds nothing.
SubsetInference ==
    /\ pc = "subset"
    /\ \E new \in { new_sentences(knowledge, 1) } :
         \E r \in { update_knowledge([mines |-> mines, safes |-> safes,
                                      knowledge |-> knowledge \o new], new) } :
           /\ mines' = r.kb.mines
           /\ safes' = r.kb.safes
           /\ knowledge' = r.kb.knowledge
           /\ pc' = IF r.changed THEN "closure" ELSE "idle"
    /\ UNCHANGED <<height, width, board, moves_made, passes, op, result, raised, history>>

\* Faulty variant: the moves already made are not excluded.
MakeSafeMove_AnySafe ==
    /\ pc = "idle"
    /\ LET possible_set == safes
       IN  IF Cardinality(possible_set) > 0
           THEN \E c \in possible_set : result' = Move(c)
           ELSE result' = NoMove
    /\ raised' = NoError
    /\ op' = "make_safe_move"
    /\ UNCHANGED <<height, width, board, moves_made, mines, safes, knowledge,
                   pc, passes, history>>

\* make_safe_move: any member of safes - moves_made, or None.
MakeSafeMove ==
    /\ pc = "idle"
    /\ LET possible_set == safes \ moves_made
       IN  IF Cardinality(possible_set) > 0
           THEN \E c \in possible_set : result' = Move(c)
           ELSE result' = NoMove
    /\ raised' = NoError
    /\ op' = "make_safe_move"
    /\ UNCHANGED <<height, width, board, moves_made, mines, safes, knowledge,
                   pc, passes, history>>

\* Faulty variant: the known mines are not excluded.
MakeRandomMove_IgnoreMines ==
    /\ pc = "idle"
    /\ LET possible_set == AllCells(height, width) \ moves_made
       IN  IF possible_set = {}
           THEN result' = NoMove /\ raised' = ValueError
           ELSE \E c \in possible_set : result' = Move(c) /\ raised' = NoError
    /\ op' = "make_random_move"
    /\ UNCHANGED <<height, width, board, moves_made, mines, safes, knowledge,
                   pc, passes, history>>

\* Faulty variant: the chosen cell is recorded as a move made.
MakeRandomMove_RecordsMove ==
    /\ pc = "idle"
    /\ LET possible_set == (AllCells(height, width) \ moves_made) \ mines
       IN  IF possible_set = {}
           THEN result' = NoMove /\ raised' = ValueError
                /\ moves_made' = moves_made
           ELSE \E c \in possible_set :
                    /\ result' = Move(c) /\ raised' = NoError
                    /\ moves_made' = moves_made \cup {c}
    /\ op' = "make_random_move"
    /\ UNCHANGED <<height, width, board, mines, safes, knowledge,
                   pc, passes, history>>

\* make_random_move: random.sample(possible_set, 1)[0] on the interpreter the
\* code was written for (a set is accepted as population); sampling one
\* element from an empty population raises ValueError.
MakeRandomMove ==
    /\ pc = "idle"
    /\ LET possible_set == (AllCells(height, width) \ moves_made) \ mines
       IN  IF possible_set = {}
           THEN result' = NoMove /\ raised' = ValueError
           ELSE \E c \in possible_set : result' = Move(c) /\ raised' = NoError
    /\ op' = "make_random_move"
    /\ UNCHANGED <<height, width, board, moves_made, mines, safes, knowledge,
                   pc, passes, history>>

\* The driving loop reveals a cell that is not a mine and was not revealed
\* before, and reports the true neighbour count.
Reveal ==
    \E cell \in (AllCells(height, width) \ board) \ moves_made :
        AddKnowledge(cell, nearby_mines(board, height, width, cell))

Next ==
    \/ Reveal
    \/ Closure
    \/ SubsetInference
    \/ MakeSafeMove
    \/ MakeRandomMove

Spec == Init /\ [][Next]_vars

\* add_knowledge runs synchronously to completion: once called, its passes
\* keep being executed.
SpecFair == Spec /\ WF_vars(Closure) /\ WF_vars(SubsetInference)

----------------------------------------------------------------------------
\* The unconstrained caller: mark_mine, mark_safe and add_knowledge are called
\* with any cell of the board and any count, whatever the board holds.

CallMarkMine ==
    /\ pc = "idle"
    /\ Len(history) < MaxCalls
    /\ \E cell \in AllCells(height, width) :
         \E kb \in { mark_mine([mines |-> mines, safes |-> safes,
                               knowledge |-> knowledge], cell) } :
             /\ mines' = kb.mines
             /\ safes' = kb.safes
             /\ knowledge' = kb.knowledge
             /\ history' = Append(history, <<"mark_mine", cell, 0>>)
    /\ op' = "mark_mine"
    /\ result' = NoMove
    /\ raised' = NoError
    /\ UNCHANGED <<height, width, board, moves_made, pc, passes>>

CallMarkSafe ==
    /\ pc = "idle"
    /\ Len(history) < MaxCalls
    /\ \E cell \in AllCells(height, width) :
         \E kb \in { mark_safe([mines |-> mines, safes |-> safes,
                               knowledge |-> knowledge], cell) } :
             /\ mines' = kb.mines
             /\ safes' = kb.safes
             /\ knowledge' = kb.knowledge
             /\ history' = Append(history, <<"mark_safe", cell, 0>>)
    /\ op' = "mark_safe"
    /\ result' = NoMove
    /\ raised' = NoError
    /\ UNCHANGED <<height, width, board, moves_made, pc, passes>>

CallAddKnowledge ==
    /\ Len(history) < MaxCalls
    /\ \E cell \in AllCells(height, width) :
         \E count \in 0 .. MaxCount : AddKnowledge(cell, count)

InitFree ==
    /\ Init
    /\ height * width <= MaxFreeCells
    /\ board = {}

NextFree ==
    \/ CallAddKnowledge
    \/ CallMarkMine
    \/ CallMarkSafe
    \/ Closure
    \/ SubsetInference

SpecFree == InitFree /\ [][NextFree]_vars

----------------------------------------------------------------------------
\* Properties

\* The candidate pools of the two queries.
SafePool == safes \ moves_made
RandomPool == (AllCells(height, width) \ moves_made) \ mines

\* C1: under the caller contract every cell in mines is a real mine and no
\* cell in safes is a real mine.
C1_Soundness == mines \subseteq board /\ safes \cap board = {}

C1_Witness == pc = "idle" /\ mines # {} /\ SafePool # {}

\* C2: under the caller contract mines and safes are disjoint.
C2_Disjoint == mines \cap safes = {}

C2_Witness == pc = "idle" /\ Cardinality(mines) >= 2 /\ Cardinality(safes) >= 2

\* C3: every add_knowledge call eventually returns.
C3_Termination == (pc # "idle") ~> (pc = "idle")

C3_Witness == pc = "idle" /\ passes = 2

\* C4: make_random_move on an empty candidate pool returns the no-move value.
C4_EmptyPoolReturnsNoMove ==
    (op = "make_random_move" /\ RandomPool = {}) =>
        (result = NoMove /\ raised = NoError)

\* C5: make_safe_move returns a member of safes - moves_made when there is
\* one, and None exactly when there is none.
C5_SafeMove ==
    op = "make_safe_move" =>
        /\ raised = NoError
        /\ SafePool # {} => \E c \in SafePool : result = Move(c)
        /\ (result = NoMove) <=> (SafePool = {})
        /\ \A c \in moves_made : result # Move(c)

C5_Witness ==
    op = "make_safe_move" /\ moves_made # {} /\ Cardinality(SafePool) >= 2
        /\ \E c \in SafePool : result = Move(c)

\* C6: a make_safe_move or make_random_move call leaves moves_made, mines,
\* safes and every sentence of knowledge unchanged.
C6_PureQueries ==
    [][op' \in {"make_safe_move", "make_random_move"} => UNCHANGED kbvars]_vars

C6_Witness ==
    op = "make_random_move" /\ Len(knowledge) >= 2 /\ mines # {}
        /\ \E c \in RandomPool : result = Move(c)

\* C7: moves_made, mines and safes never lose a cell, knowledge never gets
\* shorter and a sentence keeps its position, where it can only shrink.
C7_Monotonic ==
    [][ /\ moves_made \subseteq moves_made'
        /\ mines \subseteq mines'
        /\ safes \subseteq safes'
        /\ Len(knowledge) <= Len(knowledge')
        /\ \A i \in DOMAIN knowledge :
              /\ knowledge'[i].cells \subseteq knowledge[i].cells
              /\ knowledge'[i].count <= knowledge[i].count ]_vars

C7_Witness ==
    /\ pc = "idle"
    /\ \E i \in DOMAIN history : history[i][1] = "mark_mine"
    /\ \E i \in DOMAIN history : history[i][1] = "add_knowledge"
    /\ Cardinality(mines) >= 2
    /\ safes # moves_made

\* C8: on the 2x2 board with its only mine at (0,0), add_knowledge((1,1), 1)
\* appends ({(0,0),(0,1),(1,0)}, 1); after add_knowledge((0,1), 1) the
\* knowledge holds ({(0,0),(1,0)}, 1), safes holds (1,1) and (0,1), and mines
\* is empty.
C8_Scenario ==
    (height = 2 /\ width = 2 /\ board = {<<0, 0>>}) =>
        /\ history = << <<"add_knowledge", <<1, 1>>, 1>> >> =>
              knowledge = << Sentence({<<0, 0>>, <<0, 1>>, <<1, 0>>}, 1) >>
        /\ history = << <<"add_knowledge", <<1, 1>>, 1>>,
                        <<"add_knowledge", <<0, 1>>, 1>> >> =>
              /\ \E i \in DOMAIN knowledge :
                    knowledge[i] = Sentence({<<0, 0>>, <<1, 0>>}, 1)
              /\ {<<1, 1>>, <<0, 1>>} \subseteq safes
              /\ mines = {}

C8_Witness ==
    /\ height = 2 /\ width = 2 /\ board = {<<0, 0>>}
    /\ history = << <<"add_knowledge", <<1, 1>>, 1>>,
                    <<"add_knowledge", <<0, 1>>, 1>> >>
    /\ pc = "idle"

\* C9: make_random_move on a non-empty pool returns a cell inside the board
\* that is neither a move made nor a known mine, and every cell of the pool
\* can be returned.
C9_RandomMove ==
    /\ (op = "make_random_move" /\ RandomPool # {}) =>
          /\ raised = NoError
          /\ \E c \in RandomPool : result = Move(c)
          /\ Len(result) = 1
          /\ 0 <= result[1][1] /\ result[1][1] < height
          /\ 0 <= result[1][2] /\ result[1][2] < width
          /\ result[1] \notin moves_made
          /\ result[1] \notin mines
    /\ pc = "idle" =>
          \A c \in RandomPool : ENABLED (MakeRandomMove /\ result' = Move(c))

C9_Witness ==
    op = "make_random_move" /\ Cardinality(RandomPool) >= 2
        /\ moves_made # {} /\ mines # {}
        /\ \E c \in RandomPool : result = Move(c)

\* C10: when add_knowledge returns, every sentence the subset rule derives
\* from two sentences of knowledge is already in knowledge.
C10_SubsetFixpoint ==
    (pc = "idle" /\ op = "add_knowledge") =>
        \A i, j \in DOMAIN knowledge :
            (i # j /\ knowledge[i].cells \subseteq knowledge[j].cells
                   /\ knowledge[i].cells # knowledge[j].cells)
            => \E k \in DOMAIN knowledge :
                  knowledge[k] = Sentence(knowledge[j].cells \ knowledge[i].cells,
                                          knowledge[j].count - knowledge[i].count)

\* The cells whose state is determined.
Determined == moves_made \cup mines \cup safes

\* C11: when add_knowledge has returned, no sentence of knowledge is resolved:
\* a sentence that still holds cells has a count that is neither 0 nor the
\* number of its cells.
C11_ClosureComplete ==
    pc = "idle" =>
        \A i \in DOMAIN knowledge :
            knowledge[i].cells # {} =>
                /\ knowledge[i].count # 0
                /\ knowledge[i].count # Cardinality(knowledge[i].cells)

\* The second call returned from its subset pass and left an open sentence.
C11_Witness ==
    /\ pc = "idle" /\ passes = 1
    /\ Len(history) = 2 /\ Len(knowledge) > 2
    /\ \E i \in DOMAIN knowledge : knowledge[i].cells # {}

\* C12: a sentence holds no determined cell when it is appended (the new
\* sentence of add_knowledge, the sentences of the subset pass), and no
\* sentence holds a determined cell when add_knowledge has returned.
C12_OnlyUndetermined ==
    /\ (pc = "closure" /\ passes = 0) =>
          knowledge[Len(knowledge)].cells \cap Determined = {}
    /\ pc = "subset" =>
          \A k \in DOMAIN new_sentences(knowledge, 1) :
              new_sentences(knowledge, 1)[k].cells \cap Determined = {}
    /\ pc = "idle" =>
          \A i \in DOMAIN knowledge : knowledge[i].cells \cap Determined = {}

\* C13: under the caller contract every sentence has 0 <= count <= |cells|.
C13_CountBounds ==
    \A i \in DOMAIN knowledge :
        /\ 0 <= knowledge[i].count
        /\ knowledge[i].count <= Cardinality(knowledge[i].cells)

C13_Witness ==
    /\ Len(knowledge) > Len(history)
    /\ \E i \in DOMAIN knowledge :
          /\ i > Len(history)
          /\ knowledge[i].count >= 1
          /\ Cardinality(knowledge[i].cells) > knowledge[i].count

\* C14: every closure pass that reports changes adds a cell to mines or safes
\* that was in neither before the pass.
C14_ProgressPerPass ==
    [][(pc # "idle" /\ pc' # "idle") =>
          ~((mines' \cup safes') \subseteq (mines \cup safes))]_vars

\* C19: under the caller contract the count of every sentence is the number
\* of real mines among its cells, in every state of the loop.
C19_SentencesTrue ==
    \A i \in DOMAIN knowledge :
        knowledge[i].count = Cardinality(knowledge[i].cells \cap board)

C19_Witness ==
    /\ pc = "subset"
    /\ \E i \in DOMAIN knowledge :
          knowledge[i].count >= 1 /\ Cardinality(knowledge[i].cells) >= 2
    /\ mines # {}

\* The call that the step from the current state to the next one makes, if
\* that step is a call of the named mutator.
IsCall(name) ==
    /\ Len(history') = Len(history) + 1
    /\ history'[Len(history')][1] = name

C16_MutatorFrame ==
    [][ /\ IsCall("mark_mine") =>
            LET cell == history'[Len(history')][2]
            IN  /\ mines' = mines \cup {cell}
                /\ safes' = safes
                /\ moves_made' = moves_made
                /\ pc' = "idle"
                /\ Len(knowledge') = Len(knowledge)
                /\ \A i \in DOMAIN knowledge :
                      IF cell \in knowledge[i].cells
                      THEN /\ knowledge'[i].cells = knowledge[i].cells \ {cell}
                           /\ knowledge'[i].count = knowledge[i].count - 1
                      ELSE knowledge'[i] = knowledge[i]
        /\ IsCall("mark_safe") =>
            LET cell == history'[Len(history')][2]
            IN  /\ safes' = safes \cup {cell}
                /\ mines' = mines
                /\ moves_made' = moves_made
                /\ pc' = "idle"
                /\ Len(knowledge') = Len(knowledge)
                /\ \A i \in DOMAIN knowledge :
                      IF cell \in knowledge[i].cells
                      THEN /\ knowledge'[i].cells = knowledge[i].cells \ {cell}
                           /\ knowledge'[i].count = knowledge[i].count
                      ELSE knowledge'[i] = knowledge[i] ]_vars

\* mark_mine has just resolved a sentence and its cells are not marked.
C16_Witness ==
    /\ op = "mark_mine" /\ pc = "idle"
    /\ \E i \in DOMAIN knowledge :
          /\ knowledge[i].cells # {}
          /\ knowledge[i].count = 0
          /\ knowledge[i].cells \cap safes = {}

\* C17: a second mark_mine(cell), or mark_safe(cell), right after the first
\* changes nothing: no cell set, no count, neither mines nor safes.
C17_Idempotent ==
    [][ (/\ \/ IsCall("mark_mine")
            \/ IsCall("mark_safe")
         /\ Len(history) >= 1
         /\ history'[Len(history')] = history[Len(history)])
        => UNCHANGED kbvars ]_vars

\* mark_mine was called twice in a row on a cell of the first sentence.
C17_Witness ==
    /\ Len(history) = 3
    /\ history[1][1] = "add_knowledge"
    /\ history[2][1] = "mark_mine"
    /\ history[3] = history[2]
    /\ knowledge[1].count = history[1][3] - 1

\* C18: known_mines is the cells of the sentence when count = |cells| and
\* empty otherwise, known_safes is the cells when count = 0 and empty
\* otherwise, and a scan that only calls them changes no sentence.
C18_KnownCells ==
    /\ [](\A i \in DOMAIN knowledge :
            LET s == knowledge[i]
            IN  /\ s.count = Cardinality(s.cells) => known_mines(s) = s.cells
                /\ s.count # Cardinality(s.cells) => known_mines(s) = {}
                /\ s.count = 0 => known_safes(s) = s.cells
                /\ s.count # 0 => known_safes(s) = {})
    /\ [][(pc = "closure" /\ pc' = "idle") => UNCHANGED kbvars]_vars

C18_Witness ==
    /\ pc = "closure"
    /\ \E i \in DOMAIN knowledge : known_mines(knowledge[i]) # {}
    /\ \E i \in DOMAIN knowledge : known_safes(knowledge[i]) # {}
    /\ \E i \in DOMAIN knowledge :
          /\ knowledge[i].cells # {}
          /\ knowledge[i].count # 0
          /\ knowledge[i].count # Cardinality(knowledge[i].cells)

====
